---- MODULE Spec2Model ----
(***************************************************************************)
(* Model of the cat-feeder scheduling and gating core (package catfeeder): *)
(*   - DelayedDonationQueue   (queue_manager.py)                           *)
(*   - DonationProcessor      (processor.py)                               *)
(*   - ArduinoController      (arduino.py), the sleeping flag and motor    *)
(*   - SleepController        (sleep.py)                                   *)
(*                                                                         *)
(* Time is discrete.  One tick of `now` is one unit of time.monotonic()    *)
(* and of the wall clock; a datetime is the number of ticks since          *)
(* midnight of day 0 in the controller's (fixed-offset) timezone, so its   *)
(* date is dt \div Day and its time of day is dt % Day.                    *)
(*                                                                         *)
(* The code runs on one asyncio event loop: control changes hands only at  *)
(* an await that really suspends.  No coroutine awaits while it holds      *)
(* DelayedDonationQueue._lock, so the lock is never contended and every    *)
(* `async with self._lock` block runs without suspension; each action      *)
(* below is the code between two suspension points.  A wait_for on an      *)
(* event that is already set is taken as a suspension point (it is one up  *)
(* to Python 3.11; from 3.12 on the worker goes on at once, which is the   *)
(* behaviour where nothing else runs in between).                          *)
(***************************************************************************)
EXTENDS Integers, Sequences, FiniteSets, TLC

\* ------------------------------------------------------------------ bounds
MaxDonations == 2
MaxTime == 3
MaxRetries == 2
MaxWorkers == 2
Day == 6
MaxListeners == 2
MinutesPerHour == 2
MaxPuts == 3

VARIABLES
    now,                  \* the clock: time.monotonic() and datetime.now()
    config,               \* run_service: the raw configuration file and what
                          \*          load_config made of it
    settings,             \* DelayedDonationQueue._settings (QueueSettings)
    queue,                \* DelayedDonationQueue._queue, the heap, as a set of entries
    queue_event,          \* DelayedDonationQueue._queue_event (asyncio.Event)
    counter,              \* DelayedDonationQueue._counter
    next_available_time,  \* DelayedDonationQueue._next_available_time
    worker_task,          \* DelayedDonationQueue._worker_task (0 is None)
    closed,               \* DelayedDonationQueue._closed
    lock,                 \* DelayedDonationQueue._lock: the worker holding it (0: free)
    pc,                   \* position of each worker coroutine
    wait_until,           \* deadline of each worker's wait_for(...)
    scheduled,            \* the worker's local `scheduled`: the entry in flight
    sleeping,             \* ArduinoController._sleeping
    saved,                \* ids of the rows of the donations table
    shown,                \* ids broadcast to the donation display clients
    motor_cmds,           \* ids for which a MOTOR command was written to the serial device
    motor_errors,         \* ids for which process logged "Failed to trigger motor"
    sleep_settings,       \* SleepController._settings (SleepSettings)
    state,                \* SleepController._state (SleepState)
    manual_override,      \* SleepController._manual_override
    last_broadcast,       \* history: the latest run of SleepController._broadcast
    rounds,               \* the poll's and the override's sleep_callback suspended
                          \*          in DisplayServer.broadcast_sleep
    sent,                 \* the latest payload sent to the /ws/sleep clients
    response,             \* the latest response of POST /sleep/toggle
    heard,                \* for each listener, the flag it was last called with
    evaluations,          \* history, kept where deliveries are followed: the
                          \*          SleepStates assigned to _state
    min_gap,              \* cat_feeder DonationQueue._min_gap, in ticks
    max_items,            \* DonationQueue._max_items
    donation_queue,       \* DonationQueue._queue, a deque of QueueItems
    last_display_time,    \* DonationQueue._last_display_time
    queue_closed,         \* DonationQueue._closed
    getter,               \* the consumer's position inside DonationQueue.get
    put_count,            \* the number of put calls so far
    returned,             \* history: the instants at which get returned an item
    accepted,             \* history: for each donation, when enqueue took it, its
                          \*          place in the order of the enqueue calls, and whether
                          \*          its execute_at was capped by its own deadline
    retries,              \* history: for each donation, the attempt of each re-insertion
    failures,             \* history: for each donation, the processor calls that raised
    called_at,            \* history: for each worker, when its call in flight was made
    evaluated_at,         \* history: when _evaluate_state last ran (-1: never)
    delivered             \* history: the processor calls that returned normally

queue_vars == <<config, settings, queue, queue_event, counter, next_available_time,
                worker_task, closed, lock, pc, wait_until, scheduled>>
sink_vars == <<sleeping, saved, shown, motor_cmds, motor_errors>>
gap_vars == <<min_gap, max_items, donation_queue, last_display_time, queue_closed,
              getter, put_count, returned>>
delivery_vars == <<rounds, sent, response, heard, evaluations, gap_vars>>
sleep_vars == <<sleep_settings, state, manual_override, last_broadcast, delivery_vars>>
hist_vars == <<accepted, retries, failures, called_at, evaluated_at, delivered>>
vars == <<now, queue_vars, sink_vars, sleep_vars, hist_vars>>

Donations == 1..MaxDonations
Workers == 1..MaxWorkers
\* SleepController._callbacks, in registration order
Listeners == 1..MaxListeners
\* manual_override is None, True or False
None == "None"
Overrides == {None, "True", "False"}

Max(a, b) == IF a >= b THEN a ELSE b
Min(a, b) == IF a <= b THEN a ELSE b

\* ------------------------------------------------------------- sleep window
\* datetime.combine(now.date(), t, tzinfo)
Combine(dt, t) == (dt \div Day) * Day + t

\* _is_sleep_period with line 80 replaced by `return start_dt < now < end_dt`
IsSleepPeriodStartExclusive(s, dt) ==
    IF ~s.enabled THEN FALSE
    ELSE LET start_dt == Combine(dt, s.start)
             end_dt == Combine(dt, s.end)
         IN IF s.start < s.end
            THEN start_dt < dt /\ dt < end_dt
            ELSE IF dt >= start_dt THEN TRUE ELSE dt < end_dt

\* _is_sleep_period with line 80 replaced by `return start_dt <= now <= end_dt`
IsSleepPeriodEndInclusive(s, dt) ==
    IF ~s.enabled THEN FALSE
    ELSE LET start_dt == Combine(dt, s.start)
             end_dt == Combine(dt, s.end)
         IN IF s.start < s.end
            THEN start_dt <= dt /\ dt <= end_dt
            ELSE IF dt >= start_dt THEN TRUE ELSE dt < end_dt

\* SleepController._is_sleep_period
IsSleepPeriod(s, dt) ==
    IF ~s.enabled THEN FALSE
    ELSE LET start_dt == Combine(dt, s.start)
             end_dt == Combine(dt, s.end)
         IN IF s.start < s.end
            THEN start_dt <= dt /\ dt < end_dt
            ELSE IF dt >= start_dt THEN TRUE ELSE dt < end_dt

\* _compute_next_transition with lines 97-99 replaced by `return end_dt`: a
\* window that crosses midnight is given today's end even after start
ComputeNextTransitionSameDay(s, is_sleeping, dt) ==
    IF ~s.enabled THEN dt + (Day \div 2)
    ELSE LET start_dt == Combine(dt, s.start)
             end_dt == Combine(dt, s.end)
         IN IF s.start < s.end
            THEN (IF is_sleeping THEN end_dt ELSE start_dt)
            ELSE IF is_sleeping
                 THEN end_dt
                 ELSE (IF dt < end_dt THEN end_dt ELSE start_dt + Day)

\* SleepController._compute_next_transition
ComputeNextTransition(s, is_sleeping, dt) ==
    IF ~s.enabled THEN dt + (Day \div 2)
    ELSE LET start_dt == Combine(dt, s.start)
             end_dt == Combine(dt, s.end)
         IN IF s.start < s.end
            THEN (IF is_sleeping THEN end_dt ELSE start_dt)
            ELSE IF is_sleeping
                 THEN (IF dt >= start_dt THEN end_dt + Day ELSE end_dt)
                 ELSE (IF dt < end_dt THEN end_dt ELSE start_dt + Day)

\* _evaluate_state without lines 57-58: the override is never consulted
EvaluateStateWithoutOverride(s, override, dt) ==
    LET is_sleeping == IsSleepPeriod(s, dt)
    IN [is_sleeping |-> is_sleeping,
        next_transition |-> ComputeNextTransition(s, is_sleeping, dt)]

\* SleepController._evaluate_state: the SleepState it builds
EvaluateState(s, override, dt) ==
    LET computed == IsSleepPeriod(s, dt)
        is_sleeping == IF override # None THEN override = "True" ELSE computed
    IN [is_sleeping |-> is_sleeping,
        next_transition |-> ComputeNextTransition(s, is_sleeping, dt)]

\* no _broadcast has run yet
NoBroadcast ==
    [by |-> "none", at |-> -1, flag |-> FALSE, calls |-> [l \in Listeners |-> 0],
     raised |-> {}, propagated |-> FALSE]

\* _broadcast with the try/except of lines 107-110 removed: the first
\* exception of a callback ends the loop and reaches the caller
BroadcastUnprotected(by, dt, flag, raisers) ==
    [by |-> by, at |-> dt, flag |-> flag,
     calls |-> [l \in Listeners |-> IF \A r \in raisers : l <= r THEN 1 ELSE 0],
     raised |-> raisers, propagated |-> raisers # {}]

\* SleepController._broadcast(state), called by `by` at dt with
\* state.is_sleeping = flag, when the callbacks in raisers raise: every
\* callback is awaited once, each exception is logged and dropped
Broadcast(by, dt, flag, raisers) ==
    [by |-> by, at |-> dt, flag |-> flag, calls |-> [l \in Listeners |-> 1],
     raised |-> raisers, propagated |-> FALSE]

\* _evaluate_state without force_notify: the state is published on change only
NotifiesOnChangeOnly(force_notify, new_state, old_state) == new_state # old_state

\* _evaluate_state, line 63: whether the new state is published
Notifies(force_notify, new_state, old_state) ==
    force_notify \/ new_state # old_state

\* SleepController.__init__: SleepState(False, self._compute_next_transition(False))
InitialSleepState(s, dt) ==
    [is_sleeping |-> FALSE, next_transition |-> ComputeNextTransition(s, FALSE, dt)]

\* ------------------------------------------------------------------- queue
QueueSettings(delay, gap, maximum) ==
    [default_delay_seconds |-> delay, minimum_gap_seconds |-> gap,
     maximum_delay_seconds |-> maximum]

\* The settings the queue is explored with: a burst configuration, a delayed
\* one, and one whose gap exceeds the maximum delay (the only way
\* next_available_time can lie beyond an entry's deadline).
QueueSettingsChoices ==
    {QueueSettings(0, 1, 1), QueueSettings(1, 2, 3), QueueSettings(0, 2, 1)}

NoEntry == [execute_at |-> 0, counter |-> 0, donation |-> 0, attempt |-> 0]

\* enqueue, lines 49-52
Earliest(s, nat, t) == Max(nat, t + s.default_delay_seconds)
\* enqueue, line 53
Latest(s, t) == t + s.maximum_delay_seconds
\* enqueue without the cap of line 54
ExecuteAtUncapped(s, nat, t) == Earliest(s, nat, t)

\* enqueue, line 54
ExecuteAt(s, nat, t) == Min(Earliest(s, nat, t), Latest(s, t))

\* _reschedule_on_failure without the min of lines 114-117
BackoffUncapped(s, attempt) == s.minimum_gap_seconds * (attempt + 1)

\* _reschedule_on_failure, lines 114-117
Backoff(s, attempt) ==
    Min(s.minimum_gap_seconds * (attempt + 1), s.maximum_delay_seconds)

\* a heap whose ties go to the entry inserted last
BeforeLastInserted(e, f) ==
    \/ e.execute_at < f.execute_at
    \/ e.execute_at = f.execute_at /\ e.counter >= f.counter

\* the heap order: tuples (execute_at, counter, scheduled) compare by
\* execute_at, then by counter
Before(e, f) ==
    \/ e.execute_at < f.execute_at
    \/ e.execute_at = f.execute_at /\ e.counter <= f.counter

\* self._queue[0], and what heapq.heappop returns
QueueTop(q) == CHOOSE e \in q : \A f \in q : Before(e, f)

\* the worker is inside `await self._processor(scheduled.donation)`
InFlight(w) == pc[w] \in {"call", "broadcast"}


NotAccepted == [at |-> -1, seq |-> -1, capped |-> FALSE]

\* SleepSettings of a service whose sleep controller is switched off
SleepDisabled == [enabled |-> FALSE, start |-> 0, end |-> 0]

\* the components built directly, without run_service and a configuration file
NoConfig == [raw |-> <<>>, status |-> "none"]

\* the coroutines that run _broadcast: SleepController.run and
\* set_manual_override
Callers == {"poll", "override"}

\* no sleep_callback of that caller is suspended
NoRound == [flag |-> FALSE, read |-> [is_sleeping |-> FALSE, next_transition |-> -1],
            pending |-> FALSE]

\* the listener has not been called yet
NotHeard == [told |-> FALSE, flag |-> FALSE]

\* nothing sent yet
NoPayload == [sleeping |-> FALSE, next_transition |-> -1]

\* _last_display_time before any item was displayed
NoTime == -1

MinGapChoices == {1, 2}
MaxItemsChoices == {1, 2}

Idle == [pc |-> "idle", delay_seconds |-> 0, wake_at |-> 0]

\* the DonationQueue as constructed, in the specifications that do not use it
NoDonationQueue ==
    /\ min_gap = 1
    /\ max_items = 1
    /\ donation_queue = <<>>
    /\ last_display_time = NoTime
    /\ queue_closed = FALSE
    /\ getter = Idle
    /\ put_count = 0
    /\ returned = <<>>

\* DelayedDonationQueue.__init__ at time 0, with any processor; the sink and
\* the sleep controller take no part
Init ==
    /\ now = 0
    /\ config = NoConfig
    /\ settings \in QueueSettingsChoices
    /\ queue = {}
    /\ queue_event = FALSE
    /\ counter = 0
    /\ next_available_time = 0
    /\ worker_task = 0
    /\ closed = FALSE
    /\ lock = 0
    /\ pc = [w \in Workers |-> "none"]
    /\ wait_until = [w \in Workers |-> 0]
    /\ scheduled = [w \in Workers |-> NoEntry]
    /\ sleeping = FALSE
    /\ saved = {}
    /\ shown = {}
    /\ motor_cmds = {}
    /\ motor_errors = {}
    /\ sleep_settings = SleepDisabled
    /\ state = InitialSleepState(sleep_settings, 0)
    /\ manual_override = None
    /\ last_broadcast = NoBroadcast
    /\ rounds = [c \in Callers |-> NoRound]
    /\ sent = NoPayload
    /\ response = NoPayload
    /\ heard = [l \in Listeners |-> NotHeard]
    /\ evaluations = {}
    /\ NoDonationQueue
    /\ accepted = [d \in Donations |-> NotAccepted]
    /\ retries = [d \in Donations |-> <<>>]
    /\ failures = [d \in Donations |-> 0]
    /\ called_at = [w \in Workers |-> 0]
    /\ evaluated_at = -1
    /\ delivered = <<>>

\* the clock advances
Tick ==
    /\ now < MaxTime
    /\ now' = now + 1
    /\ UNCHANGED <<queue_vars, sink_vars, sleep_vars, hist_vars>>

\* start without the test of line 36: every call creates a worker task
StartUnguarded ==
    /\ IF \E w \in Workers : pc[w] = "none"
       THEN LET w == CHOOSE v \in Workers :
                        pc[v] = "none" /\ \A u \in Workers : pc[u] = "none" => v <= u
            IN /\ worker_task' = w
               /\ pc' = [pc EXCEPT ![w] = "created"]
       ELSE UNCHANGED <<worker_task, pc>>
    /\ UNCHANGED <<now, config, settings, lock, queue, queue_event, counter, next_available_time,
                   closed, wait_until, scheduled, sink_vars, sleep_vars, hist_vars>>

\* DelayedDonationQueue.start
Start ==
    /\ IF worker_task = 0 /\ \E w \in Workers : pc[w] = "none"
       THEN LET w == CHOOSE v \in Workers :
                        pc[v] = "none" /\ \A u \in Workers : pc[u] = "none" => v <= u
            IN /\ worker_task' = w
               /\ pc' = [pc EXCEPT ![w] = "created"]
       ELSE UNCHANGED <<worker_task, pc>>
    /\ UNCHANGED <<now, config, settings, lock, queue, queue_event, counter, next_available_time,
                   closed, wait_until, scheduled, sink_vars, sleep_vars, hist_vars>>

\* DelayedDonationQueue.close (up to `await self._worker_task`)
Close ==
    /\ closed' = TRUE
    /\ queue_event' = TRUE
    /\ UNCHANGED <<now, config, settings, lock, queue, counter, next_available_time, worker_task,
                   pc, wait_until, scheduled, sink_vars, sleep_vars, hist_vars>>

\* enqueue without `self._queue_event.set()`
EnqueueSilent(d) ==
    /\ accepted[d] = NotAccepted
    /\ lock = 0
    /\ LET execute_at == ExecuteAt(settings, next_available_time, now)
           entry == [execute_at |-> execute_at, counter |-> counter,
                     donation |-> d, attempt |-> 0]
       IN /\ queue' = queue \cup {entry}
          /\ accepted' = [accepted EXCEPT ![d] =
                 [at |-> now,
                  seq |-> counter,
                  capped |-> Earliest(settings, next_available_time, now)
                                 > Latest(settings, now)]]
    /\ counter' = counter + 1
    /\ UNCHANGED <<now, config, settings, lock, queue_event, next_available_time,
                   worker_task, closed, pc, wait_until, scheduled, sink_vars,
                   sleep_vars, retries, failures, called_at, evaluated_at, delivered>>

\* enqueue refusing entries once the queue is closed
EnqueueAfterCloseRejected(d) ==
    /\ accepted[d] = NotAccepted
    /\ lock = 0
    /\ LET execute_at == ExecuteAt(settings, next_available_time, now)
           entry == [execute_at |-> execute_at, counter |-> counter,
                     donation |-> d, attempt |-> 0]
       IN /\ queue' = IF closed THEN queue ELSE queue \cup {entry}
          /\ accepted' = [accepted EXCEPT ![d] =
                 [at |-> now,
                  seq |-> counter,
                  capped |-> Earliest(settings, next_available_time, now)
                                 > Latest(settings, now)]]
    /\ counter' = counter + 1
    /\ queue_event' = TRUE
    /\ UNCHANGED <<now, config, settings, lock, next_available_time, worker_task, closed, pc,
                   wait_until, scheduled, sink_vars, sleep_vars, retries, failures,
                   called_at, evaluated_at, delivered>>

\* DelayedDonationQueue.enqueue
Enqueue(d) ==
    /\ accepted[d] = NotAccepted
    /\ lock = 0
    /\ LET execute_at == ExecuteAt(settings, next_available_time, now)
           entry == [execute_at |-> execute_at, counter |-> counter,
                     donation |-> d, attempt |-> 0]
       IN /\ queue' = queue \cup {entry}
          /\ accepted' = [accepted EXCEPT ![d] =
                 [at |-> now,
                  seq |-> counter,
                  capped |-> Earliest(settings, next_available_time, now)
                                 > Latest(settings, now)]]
    /\ counter' = counter + 1
    /\ queue_event' = TRUE
    /\ UNCHANGED <<now, config, settings, lock, next_available_time, worker_task, closed, pc,
                   wait_until, scheduled, sink_vars, sleep_vars, retries, failures,
                   called_at, evaluated_at, delivered>>

\* _worker without the test of lines 80-82: the head is popped as it is
HeadDelayIgnored(q, t) == 0

\* _worker, lines 79-81: `delay = execute_at - now` for the head peeked
HeadDelay(q, t) == QueueTop(q).execute_at - t

\* _worker with the processor awaited inside the `async with` of lines 89-95
LockDuringCallHeld(w) == w

\* _worker, lines 89-98: the `async with self._lock` block ends at line 95,
\* before the processor is awaited, so the lock is free during the call
LockDuringCall(w) == 0

\* the pop section with the event cleared whatever is left in the heap
EventAfterPopCleared(rest, ev) == FALSE

\* _worker, after heappop: `if not self._heap: self._queue_event.clear()`
EventAfterPop(rest, ev) == IF rest = {} THEN FALSE ELSE ev

\* _worker, lines 74-98: one pass of the inner loop over the heap q, with the
\* event's value ev, up to the next suspension of worker w: the heap is empty
\* (lines 76-78, then 72-73), its head is not due (lines 79-87) or its head is
\* due and is popped and handed to the processor (lines 89-98); the lock is
\* taken at lines 75 and 89
Inspect(w, q, ev) ==
    /\ lock \in {0, w}
    /\ IF q = {}
       THEN /\ queue' = q
            /\ queue_event' = FALSE
            /\ lock' = 0
            /\ pc' = [pc EXCEPT ![w] = IF closed THEN "done" ELSE "wait"]
            /\ scheduled' = [scheduled EXCEPT ![w] = NoEntry]
            /\ UNCHANGED <<next_available_time, wait_until, called_at>>
       ELSE IF HeadDelay(q, now) > 0
       THEN /\ queue' = q
            /\ queue_event' = ev
            /\ lock' = 0
            /\ pc' = [pc EXCEPT ![w] = "waitfor"]
            /\ wait_until' = [wait_until EXCEPT ![w] = QueueTop(q).execute_at]
            /\ scheduled' = [scheduled EXCEPT ![w] = NoEntry]
            /\ UNCHANGED <<next_available_time, called_at>>
       ELSE /\ queue' = q \ {QueueTop(q)}
            /\ queue_event' = EventAfterPop(q \ {QueueTop(q)}, ev)
            /\ lock' = LockDuringCall(w)
            /\ next_available_time' = now + settings.minimum_gap_seconds
            /\ scheduled' = [scheduled EXCEPT ![w] = QueueTop(q)]
            /\ pc' = [pc EXCEPT ![w] = "call"]
            /\ called_at' = [called_at EXCEPT ![w] = now]
            /\ UNCHANGED wait_until

\* the task's first step without the test of _closed in line 72
WorkerBeginIgnoringClosed(w) ==
    /\ pc[w] = "created"
    /\ IF ~queue_event
       THEN /\ pc' = [pc EXCEPT ![w] = "wait"]
            /\ UNCHANGED <<queue, queue_event, lock, next_available_time, wait_until,
                           scheduled, called_at>>
       ELSE Inspect(w, queue, queue_event)
    /\ UNCHANGED <<now, config, settings, counter, worker_task, closed, sink_vars,
                   sleep_vars, accepted, retries, failures, evaluated_at, delivered>>

\* _worker: the task's first step, `while not self._closed` and
\* `await self._queue_event.wait()`, which does not suspend when the event is set
WorkerBegin(w) ==
    /\ pc[w] = "created"
    /\ IF closed \/ ~queue_event
       THEN /\ pc' = [pc EXCEPT ![w] = IF closed THEN "done" ELSE "wait"]
            /\ UNCHANGED <<queue, queue_event, lock, next_available_time, wait_until,
                           scheduled, called_at>>
       ELSE Inspect(w, queue, queue_event)
    /\ UNCHANGED <<now, config, settings, counter, worker_task, closed, sink_vars,
                   sleep_vars, accepted, retries, failures, evaluated_at, delivered>>

\* _worker sleeping for `delay` at line 84 instead of waiting on the event
WorkerResumeAfterTimeoutOnly(w) ==
    /\ \/ pc[w] = "wait" /\ queue_event
       \/ pc[w] = "waitfor" /\ now >= wait_until[w]
    /\ Inspect(w, queue, queue_event)
    /\ UNCHANGED <<now, config, settings, counter, worker_task, closed, sink_vars,
                   sleep_vars, accepted, retries, failures, evaluated_at, delivered>>

\* _worker: resumption from `await self._queue_event.wait()` (line 73) or from
\* `asyncio.wait_for(self._queue_event.wait(), timeout=delay)` (line 84), which
\* returns as soon as the event is set or the timeout has passed
WorkerResume(w) ==
    /\ \/ pc[w] = "wait" /\ queue_event
       \/ pc[w] = "waitfor" /\ (queue_event \/ now >= wait_until[w])
    /\ Inspect(w, queue, queue_event)
    /\ UNCHANGED <<now, config, settings, counter, worker_task, closed, sink_vars,
                   sleep_vars, accepted, retries, failures, evaluated_at, delivered>>

\* _worker, line 98: the processor returned; the entry is discarded and the
\* inner loop goes on
Returned(w) ==
    /\ delivered' = Append(delivered,
           [donation |-> scheduled[w].donation, attempt |-> scheduled[w].attempt,
            at |-> called_at[w]])
    /\ Inspect(w, queue, queue_event)
    /\ UNCHANGED <<counter, retries, failures>>

\* line 100 left out: the attempt is not incremented
AttemptedNot(entry) == entry

\* _worker, line 100: scheduled.attempt += 1
Attempted(entry) == [entry EXCEPT !.attempt = entry.attempt + 1]

\* _reschedule_on_failure, lines 114-120: the tuple pushed on the heap
Rescheduled(s, entry, t, c) ==
    [entry EXCEPT !.execute_at = t + Backoff(s, entry.attempt), !.counter = c]

\* line 120 left out: the failed entry is dropped
PushedNot(q, entry) == q

\* _reschedule_on_failure, line 120: heapq.heappush
Pushed(q, entry) == q \cup {entry}

\* _worker, lines 99-107, and _reschedule_on_failure: the processor raised; the
\* entry is re-inserted and the inner loop goes on
Raised(w) ==
    /\ counter < MaxDonations + MaxRetries
    /\ LET d == scheduled[w].donation
           entry == Rescheduled(settings, Attempted(scheduled[w]), now, counter)
       IN /\ failures' = [failures EXCEPT ![d] = failures[d] + 1]
          /\ retries' = [retries EXCEPT ![d] =
                 IF entry \in Pushed(queue, entry)
                 THEN Append(retries[d], entry.attempt)
                 ELSE retries[d]]
          /\ Inspect(w, Pushed(queue, entry), TRUE)
    /\ counter' = counter + 1
    /\ UNCHANGED delivered

\* `await self._processor(scheduled.donation)` returns, for any processor
ProcessorReturns(w) ==
    /\ pc[w] = "call"
    /\ Returned(w)
    /\ UNCHANGED <<now, config, settings, worker_task, closed, sink_vars, sleep_vars,
                   accepted, evaluated_at>>

\* `await self._processor(scheduled.donation)` raises, for any processor
ProcessorRaises(w) ==
    /\ pc[w] = "call"
    /\ Raised(w)
    /\ UNCHANGED <<now, config, settings, worker_task, closed, sink_vars, sleep_vars,
                   accepted, evaluated_at>>

Next ==
    \/ Tick
    \/ Start
    \/ Close
    \/ \E d \in Donations : Enqueue(d)
    \/ \E w \in Workers : WorkerBegin(w)
    \/ \E w \in Workers : WorkerResume(w)
    \/ \E w \in Workers : ProcessorReturns(w)
    \/ \E w \in Workers : ProcessorRaises(w)

Spec == Init /\ [][Next]_vars

\* ---------------------------------------------------------------- liveness
\* The queue started and never closed, under fair scheduling: the clock
\* advances at least until every pending entry is due, the worker takes its
\* steps, and a processor call that can only return does return (a processor
\* raises at most MaxRetries times in a run).
LiveTick ==
    /\ now < MaxTime \/ \E e \in queue : e.execute_at > now
    /\ now' = now + 1
    /\ UNCHANGED <<queue_vars, sink_vars, sleep_vars, hist_vars>>

LiveNext ==
    \/ LiveTick
    \/ Start
    \/ \E d \in Donations : Enqueue(d)
    \/ \E w \in Workers : WorkerBegin(w)
    \/ \E w \in Workers : WorkerResume(w)
    \/ \E w \in Workers : ProcessorReturns(w)
    \/ \E w \in Workers : ProcessorRaises(w)

LiveFairness ==
    /\ WF_vars(LiveTick)
    /\ WF_vars(Start)
    /\ \A w \in Workers :
           /\ WF_vars(WorkerBegin(w))
           /\ WF_vars(WorkerResume(w))
           /\ WF_vars(ProcessorReturns(w))

LiveSpec == Init /\ [][LiveNext]_vars /\ LiveFairness

\* ------------------------------------------------------------------- burst
\* The queue with no default delay, a gap of one tick and a maximum delay
\* that leaves room for every donation of a burst to be spaced by the gap.
BurstQueueSettings == QueueSettings(0, 1, MaxDonations)

\* DelayedDonationQueue.__init__ with the burst settings
BurstInit ==
    /\ now = 0
    /\ config = NoConfig
    /\ settings = BurstQueueSettings
    /\ queue = {}
    /\ queue_event = FALSE
    /\ counter = 0
    /\ next_available_time = 0
    /\ worker_task = 0
    /\ closed = FALSE
    /\ lock = 0
    /\ pc = [w \in Workers |-> "none"]
    /\ wait_until = [w \in Workers |-> 0]
    /\ scheduled = [w \in Workers |-> NoEntry]
    /\ sleeping = FALSE
    /\ saved = {}
    /\ shown = {}
    /\ motor_cmds = {}
    /\ motor_errors = {}
    /\ sleep_settings = SleepDisabled
    /\ state = InitialSleepState(sleep_settings, 0)
    /\ manual_override = None
    /\ last_broadcast = NoBroadcast
    /\ rounds = [c \in Callers |-> NoRound]
    /\ sent = NoPayload
    /\ response = NoPayload
    /\ heard = [l \in Listeners |-> NotHeard]
    /\ evaluations = {}
    /\ NoDonationQueue
    /\ accepted = [d \in Donations |-> NotAccepted]
    /\ retries = [d \in Donations |-> <<>>]
    /\ failures = [d \in Donations |-> 0]
    /\ called_at = [w \in Workers |-> 0]
    /\ evaluated_at = -1
    /\ delivered = <<>>

BurstSpec == BurstInit /\ [][Next]_vars

\* ----------------------------------------------------------------- service
\* The service is explored while it runs (before run_service shuts it down),
\* with one queue configuration and one sleep window, [1, 3) of each day.
ServiceQueueSettings == QueueSettings(1, 2, 3)
ServiceSleepSettings == [enabled |-> TRUE, start |-> 1, end |-> 3]

\* run_service, lines 38-55: the components are built, the queue is started
\* and sleep_callback is called with the controller's initial state
ServiceInit ==
    /\ now = 0
    /\ config = NoConfig
    /\ settings = ServiceQueueSettings
    /\ queue = {}
    /\ queue_event = FALSE
    /\ counter = 0
    /\ next_available_time = 0
    /\ worker_task = 1
    /\ closed = FALSE
    /\ lock = 0
    /\ pc = [w \in Workers |-> IF w = 1 THEN "created" ELSE "none"]
    /\ wait_until = [w \in Workers |-> 0]
    /\ scheduled = [w \in Workers |-> NoEntry]
    /\ sleep_settings = ServiceSleepSettings
    /\ state = InitialSleepState(sleep_settings, 0)
    /\ manual_override = None
    /\ last_broadcast = NoBroadcast
    /\ rounds = [c \in Callers |-> NoRound]
    /\ sent = NoPayload
    /\ response = NoPayload
    /\ heard = [l \in Listeners |-> NotHeard]
    /\ evaluations = {}
    /\ NoDonationQueue
    /\ sleeping = state.is_sleeping
    /\ saved = {}
    /\ shown = {}
    /\ motor_cmds = {}
    /\ motor_errors = {}
    /\ accepted = [d \in Donations |-> NotAccepted]
    /\ retries = [d \in Donations |-> <<>>]
    /\ failures = [d \in Donations |-> 0]
    /\ called_at = [w \in Workers |-> 0]
    /\ evaluated_at = -1
    /\ delivered = <<>>

\* trigger_motor without the test of line 45
WritesMotorCommandAlways(flag) == TRUE

\* ArduinoController.trigger_motor: whether _write_command is called
WritesMotorCommand(flag) == ~flag

\* DonationProcessor.process, line 28: `await self._repository.save(payload)`
\* returns and broadcast_donation begins
ProcessSave(w) ==
    /\ pc[w] = "call"
    /\ saved' = saved \cup {scheduled[w].donation}
    /\ pc' = [pc EXCEPT ![w] = "broadcast"]
    /\ UNCHANGED <<now, config, settings, lock, queue, queue_event, counter, next_available_time,
                   worker_task, closed, wait_until, scheduled, sleeping, shown,
                   motor_cmds, motor_errors, sleep_vars, hist_vars>>

\* process without the try/except of lines 30-33
CatchesSerialExceptionNot == FALSE

\* DonationProcessor.process, lines 30-33: the call of trigger_motor is wrapped
\* in `except SerialException`, which only logs
CatchesSerialException == TRUE

\* DonationProcessor.process, lines 29-40: broadcast_donation returns, then
\* trigger_motor runs without suspending; a SerialException of _write_command
\* or _ensure_connected is caught and logged, and process returns to the
\* worker; uncaught, it would reach the worker's `except Exception`
ProcessBroadcast(w) ==
    /\ pc[w] = "broadcast"
    /\ shown' = shown \cup {scheduled[w].donation}
    /\ \E serial_ok \in BOOLEAN :
          /\ motor_cmds' = IF WritesMotorCommand(sleeping) /\ serial_ok
                           THEN motor_cmds \cup {scheduled[w].donation}
                           ELSE motor_cmds
          /\ motor_errors' = IF WritesMotorCommand(sleeping) /\ ~serial_ok
                             THEN motor_errors \cup {scheduled[w].donation}
                             ELSE motor_errors
          /\ IF WritesMotorCommand(sleeping) /\ ~serial_ok /\ ~CatchesSerialException
             THEN Raised(w)
             ELSE Returned(w)
    /\ UNCHANGED <<now, config, settings, worker_task, closed, sleeping, saved, sleep_vars,
                   accepted, evaluated_at>>

\* DonationProcessor.process raises: repository.save (line 28) or
\* display.broadcast_donation (line 29) raised
ProcessRaises(w) ==
    /\ pc[w] \in {"call", "broadcast"}
    /\ Raised(w)
    /\ UNCHANGED <<now, config, settings, worker_task, closed, sink_vars, sleep_vars,
                   accepted, evaluated_at>>

\* sleep_callback without line 51: the actuator is not told
SleepCallbackNot(flag) == sleeping' = sleeping

\* run_service.sleep_callback: arduino.set_sleeping(sleeping)
SleepCallback(flag) == sleeping' = flag

\* SleepController.run: one iteration, _evaluate_state and, when the state
\* changed, _broadcast to the registered sleep_callback
SleepPoll ==
    /\ LET new_state == EvaluateState(sleep_settings, manual_override, now)
       IN IF new_state # state
          THEN /\ state' = new_state
               /\ SleepCallback(new_state.is_sleeping)
          ELSE UNCHANGED <<state, sleeping>>
    /\ UNCHANGED <<now, queue_vars, saved, shown, motor_cmds, motor_errors,
                   delivery_vars, sleep_settings, manual_override, accepted, retries, failures,
                   called_at, delivered>>

\* SleepController.set_manual_override: _evaluate_state(force_notify=True)
\* and _broadcast
SetManualOverride(value) ==
    /\ manual_override' = value
    /\ state' = EvaluateState(sleep_settings, value, now)
    /\ SleepCallback(state'.is_sleeping)
    /\ UNCHANGED <<now, queue_vars, saved, shown, motor_cmds, motor_errors,
                   delivery_vars, sleep_settings, accepted, retries, failures, called_at, delivered>>

\* SleepController.run as the service's sleep task
ServicePoll == SleepPoll /\ UNCHANGED <<evaluated_at, last_broadcast>>

\* POST /sleep/toggle (display.py, lines 113-118)
ServiceOverride(value) ==
    SetManualOverride(value) /\ UNCHANGED <<evaluated_at, last_broadcast>>

ServiceNext ==
    \/ Tick
    \/ \E d \in Donations : Enqueue(d)
    \/ \E w \in Workers : WorkerBegin(w)
    \/ \E w \in Workers : WorkerResume(w)
    \/ \E w \in Workers : ProcessSave(w)
    \/ \E w \in Workers : ProcessBroadcast(w)
    \/ \E w \in Workers : ProcessRaises(w)
    \/ ServicePoll
    \/ \E value \in Overrides : ServiceOverride(value)

ServiceSpec == ServiceInit /\ [][ServiceNext]_vars

\* -------------------------------------------------------- sleep controller
\* The controller on its own, over every window of the day, built at any
\* time of day 0 and followed to the end of day 1.
SleepSettingsChoices ==
    [enabled : BOOLEAN, start : 0..(Day - 1), end : 0..(Day - 1)]
SleepHorizon == 2 * Day - 1

\* SleepController.__init__ at any time of day; no queue activity
SleepInit ==
    /\ now \in 0..(Day - 1)
    /\ config = NoConfig
    /\ settings = ServiceQueueSettings
    /\ queue = {}
    /\ queue_event = FALSE
    /\ counter = 0
    /\ next_available_time = 0
    /\ worker_task = 0
    /\ closed = FALSE
    /\ lock = 0
    /\ pc = [w \in Workers |-> "none"]
    /\ wait_until = [w \in Workers |-> 0]
    /\ scheduled = [w \in Workers |-> NoEntry]
    /\ sleep_settings \in SleepSettingsChoices
    /\ state = InitialSleepState(sleep_settings, now)
    /\ manual_override = None
    /\ last_broadcast = NoBroadcast
    /\ rounds = [c \in Callers |-> NoRound]
    /\ sent = NoPayload
    /\ response = NoPayload
    /\ heard = [l \in Listeners |-> NotHeard]
    /\ evaluations = {}
    /\ NoDonationQueue
    /\ sleeping = FALSE
    /\ saved = {}
    /\ shown = {}
    /\ motor_cmds = {}
    /\ motor_errors = {}
    /\ accepted = [d \in Donations |-> NotAccepted]
    /\ retries = [d \in Donations |-> <<>>]
    /\ failures = [d \in Donations |-> 0]
    /\ called_at = [w \in Workers |-> 0]
    /\ evaluated_at = -1
    /\ delivered = <<>>

\* the wall clock advances
SleepTick ==
    /\ now < SleepHorizon
    /\ now' = now + 1
    /\ UNCHANGED <<queue_vars, sink_vars, sleep_vars, hist_vars>>

\* SleepController.run: one iteration; datetime.now() is read at line 55
SleepRun == SleepPoll /\ evaluated_at' = now /\ UNCHANGED last_broadcast

\* SleepController.set_manual_override; datetime.now() is read at line 55
SleepOverride(value) ==
    SetManualOverride(value) /\ evaluated_at' = now /\ UNCHANGED last_broadcast

SleepNext ==
    \/ SleepTick
    \/ SleepRun
    \/ \E value \in Overrides : SleepOverride(value)

SleepSpec == SleepInit /\ [][SleepNext]_vars

\* ------------------------------------------------- sleep state listeners
\* The controller with its registered callbacks, any of which may raise, over
\* a same-day window, one that crosses midnight, and a disabled one.
NotifySettingsChoices ==
    {[enabled |-> TRUE, start |-> 1, end |-> 3],
     [enabled |-> TRUE, start |-> 4, end |-> 1],
     [enabled |-> FALSE, start |-> 1, end |-> 3]}

\* SleepController.__init__ and register_callback for each listener
NotifyInit ==
    /\ now \in 0..(Day - 1)
    /\ config = NoConfig
    /\ settings = ServiceQueueSettings
    /\ queue = {}
    /\ queue_event = FALSE
    /\ counter = 0
    /\ next_available_time = 0
    /\ worker_task = 0
    /\ closed = FALSE
    /\ lock = 0
    /\ pc = [w \in Workers |-> "none"]
    /\ wait_until = [w \in Workers |-> 0]
    /\ scheduled = [w \in Workers |-> NoEntry]
    /\ sleep_settings \in NotifySettingsChoices
    /\ state = InitialSleepState(sleep_settings, now)
    /\ manual_override = None
    /\ last_broadcast = NoBroadcast
    /\ rounds = [c \in Callers |-> NoRound]
    /\ sent = NoPayload
    /\ response = NoPayload
    /\ heard = [l \in Listeners |-> NotHeard]
    /\ evaluations = {}
    /\ NoDonationQueue
    /\ sleeping = FALSE
    /\ saved = {}
    /\ shown = {}
    /\ motor_cmds = {}
    /\ motor_errors = {}
    /\ accepted = [d \in Donations |-> NotAccepted]
    /\ retries = [d \in Donations |-> <<>>]
    /\ failures = [d \in Donations |-> 0]
    /\ called_at = [w \in Workers |-> 0]
    /\ evaluated_at = -1
    /\ delivered = <<>>

\* SleepController.run: one iteration (lines 49-51), while no exception has
\* ended the loop
NotifyRun ==
    /\ ~(last_broadcast.by = "poll" /\ last_broadcast.propagated)
    /\ SleepPoll
    /\ evaluated_at' = now
    /\ IF Notifies(FALSE, state', state)
       THEN \E raisers \in SUBSET Listeners :
               last_broadcast' = Broadcast("poll", now, state'.is_sleeping, raisers)
       ELSE UNCHANGED last_broadcast

\* SleepController.set_manual_override (lines 38-42)
NotifyOverride(value) ==
    /\ SetManualOverride(value)
    /\ evaluated_at' = now
    /\ IF Notifies(TRUE, state', state)
       THEN \E raisers \in SUBSET Listeners :
               last_broadcast' = Broadcast("override", now, state'.is_sleeping, raisers)
       ELSE UNCHANGED last_broadcast

NotifyNext ==
    \/ SleepTick
    \/ NotifyRun
    \/ \E value \in Overrides : NotifyOverride(value)

NotifySpec == NotifyInit /\ [][NotifyNext]_vars

\* ------------------------------------------------ sleep state deliveries
\* The controller with run_service's sleep_callback as its listener, the
\* callback being followed through its suspension in broadcast_sleep: a
\* round of the poll and a round of an override can be in delivery at once.
DeliverySettingsChoices ==
    {[enabled |-> TRUE, start |-> 1, end |-> 3],
     [enabled |-> TRUE, start |-> 4, end |-> 1]}

\* broadcast_sleep reading the controller's state when the message goes out
BroadcastSleepStateAtSend(read, current) == current

\* DisplayServer.broadcast_sleep, lines 135-136: get_state() is called before
\* the first await, so the payload is built from the state read on entry
BroadcastSleepState(read, current) == read

\* DisplayServer.broadcast_sleep, lines 137-143, and toggle_sleep, lines
\* 119-125: the payload
SleepPayload(flag, published) ==
    [sleeping |-> flag, next_transition |-> published.next_transition]

\* sleep_callback(flag) suspended in broadcast_sleep, which has read `read`
Round(flag, read) == [flag |-> flag, read |-> read, pending |-> TRUE]

\* run_service, lines 39-55, at any time of day
DeliveryInit ==
    /\ now \in 0..(Day - 1)
    /\ config = NoConfig
    /\ settings = ServiceQueueSettings
    /\ queue = {}
    /\ queue_event = FALSE
    /\ counter = 0
    /\ next_available_time = 0
    /\ worker_task = 0
    /\ closed = FALSE
    /\ lock = 0
    /\ pc = [w \in Workers |-> "none"]
    /\ wait_until = [w \in Workers |-> 0]
    /\ scheduled = [w \in Workers |-> NoEntry]
    /\ sleep_settings \in DeliverySettingsChoices
    /\ state = InitialSleepState(sleep_settings, now)
    /\ manual_override = None
    /\ last_broadcast = NoBroadcast
    /\ rounds = [c \in Callers |-> NoRound]
    /\ sent = NoPayload
    /\ response = NoPayload
    /\ heard = [l \in Listeners |-> NotHeard]
    /\ evaluations = {state}
    /\ NoDonationQueue
    /\ sleeping = state.is_sleeping
    /\ saved = {}
    /\ shown = {}
    /\ motor_cmds = {}
    /\ motor_errors = {}
    /\ accepted = [d \in Donations |-> NotAccepted]
    /\ retries = [d \in Donations |-> <<>>]
    /\ failures = [d \in Donations |-> 0]
    /\ called_at = [w \in Workers |-> 0]
    /\ evaluated_at = -1
    /\ delivered = <<>>

\* SleepController.run: one iteration, up to the suspension of sleep_callback
\* in broadcast_sleep: _evaluate_state, set_sleeping and get_state run without
\* suspending; the loop does not iterate while its callback is suspended
DeliveryPoll ==
    /\ ~rounds["poll"].pending
    /\ LET new_state == EvaluateState(sleep_settings, manual_override, now)
       IN IF Notifies(FALSE, new_state, state)
          THEN /\ state' = new_state
               /\ evaluations' = evaluations \cup {new_state}
               /\ UNCHANGED gap_vars
               /\ SleepCallback(new_state.is_sleeping)
               /\ rounds' = [rounds EXCEPT
                      !["poll"] = Round(new_state.is_sleeping, state')]
          ELSE UNCHANGED <<state, evaluations, gap_vars, sleeping, rounds>>
    /\ evaluated_at' = now
    /\ UNCHANGED <<now, queue_vars, saved, shown, motor_cmds, motor_errors,
                   sleep_settings, manual_override, last_broadcast, sent, response,
                   heard, accepted, retries, failures, called_at, delivered>>

\* SleepController.set_manual_override, up to the suspension of sleep_callback
\* in broadcast_sleep; the controller's lock is held by an override whose
\* callback is suspended
DeliveryOverride(value) ==
    /\ ~rounds["override"].pending
    /\ manual_override' = value
    /\ LET new_state == EvaluateState(sleep_settings, value, now)
       IN /\ state' = new_state
          /\ evaluations' = evaluations \cup {new_state}
          /\ UNCHANGED gap_vars
          /\ SleepCallback(new_state.is_sleeping)
          /\ rounds' = [rounds EXCEPT
                 !["override"] = Round(new_state.is_sleeping, state')]
    /\ evaluated_at' = now
    /\ UNCHANGED <<now, queue_vars, saved, shown, motor_cmds, motor_errors,
                   sleep_settings, last_broadcast, sent, response,
                   heard, accepted, retries, failures, called_at, delivered>>

\* WebSocketManager.broadcast sends the payload of caller c's round and
\* sleep_callback returns; after an override, toggle_sleep answers with
\* get_state()
DeliverySend(c) ==
    /\ rounds[c].pending
    /\ sent' = SleepPayload(rounds[c].flag,
                            BroadcastSleepState(rounds[c].read, state))
    /\ response' = IF c = "override"
                   THEN SleepPayload(state.is_sleeping, state)
                   ELSE response
    /\ rounds' = [rounds EXCEPT ![c] = NoRound]
    /\ UNCHANGED <<now, queue_vars, sink_vars, sleep_settings, state,
                   manual_override, last_broadcast, heard, evaluations, gap_vars, hist_vars>>

DeliveryNext ==
    \/ SleepTick
    \/ DeliveryPoll
    \/ \E value \in Overrides : DeliveryOverride(value)
    \/ \E c \in Callers : DeliverySend(c)

DeliverySpec == DeliveryInit /\ [][DeliveryNext]_vars

\* ------------------------------------------------- notification rounds
\* The controller with its listeners, each call of a listener being followed
\* from its invocation to its completion: a listener may suspend, and a round
\* of the poll and a round of an override can then be under way at once.
RoundSettingsChoices ==
    {[enabled |-> TRUE, start |-> 1, end |-> 3],
     [enabled |-> TRUE, start |-> 4, end |-> 1]}

\* list(self._callbacks): the listeners in the order of register_callback
Callbacks == [l \in Listeners |-> l]

\* _broadcast starting all its callbacks together
AwaitedTogether(remaining) == remaining

\* SleepController._broadcast, lines 106-108: the loop awaits one callback,
\* the first of those not yet called, before it goes on
Awaited(remaining) == <<Head(remaining)>>

\* no _broadcast of that caller is under way
NoListenerRound ==
    [pending |-> FALSE, flag |-> FALSE, invoked |-> <<>>, running |-> {},
     remaining |-> <<>>]

\* _broadcast(state) with the callbacks in `remaining` still to call: the
\* next ones are invoked with state.is_sleeping
Invoke(round, flag) ==
    LET batch == Awaited(round.remaining)
    IN [pending |-> TRUE, flag |-> flag,
        invoked |-> round.invoked \o batch,
        running |-> round.running \cup {batch[i] : i \in 1..Len(batch)},
        remaining |-> SubSeq(round.remaining, Len(batch) + 1, Len(round.remaining))]

\* the listeners called by the step that takes round `old` to `new`
Called(old, new) ==
    {new.invoked[i] : i \in (Len(old.invoked) + 1)..Len(new.invoked)}

\* the callbacks record the flag they are called with
Hear(old, new) ==
    heard' = [l \in Listeners |->
                 IF l \in Called(old, new)
                 THEN [told |-> TRUE, flag |-> new.flag]
                 ELSE heard[l]]

\* SleepController.__init__ and register_callback for each listener
RoundInit ==
    /\ now \in 0..(Day - 1)
    /\ config = NoConfig
    /\ settings = ServiceQueueSettings
    /\ queue = {}
    /\ queue_event = FALSE
    /\ counter = 0
    /\ next_available_time = 0
    /\ worker_task = 0
    /\ closed = FALSE
    /\ lock = 0
    /\ pc = [w \in Workers |-> "none"]
    /\ wait_until = [w \in Workers |-> 0]
    /\ scheduled = [w \in Workers |-> NoEntry]
    /\ sleep_settings \in RoundSettingsChoices
    /\ state = InitialSleepState(sleep_settings, now)
    /\ manual_override = None
    /\ last_broadcast = NoBroadcast
    /\ rounds = [c \in Callers |-> NoListenerRound]
    /\ sent = NoPayload
    /\ response = NoPayload
    /\ heard = [l \in Listeners |-> NotHeard]
    /\ evaluations = {}
    /\ NoDonationQueue
    /\ sleeping = FALSE
    /\ saved = {}
    /\ shown = {}
    /\ motor_cmds = {}
    /\ motor_errors = {}
    /\ accepted = [d \in Donations |-> NotAccepted]
    /\ retries = [d \in Donations |-> <<>>]
    /\ failures = [d \in Donations |-> 0]
    /\ called_at = [w \in Workers |-> 0]
    /\ evaluated_at = -1
    /\ delivered = <<>>

\* SleepController.run: one iteration, up to the first suspension inside a
\* callback; the poll takes no lock, and does not iterate while its
\* _broadcast is under way
RoundPoll ==
    /\ ~rounds["poll"].pending
    /\ LET new_state == EvaluateState(sleep_settings, manual_override, now)
           round == Invoke([NoListenerRound EXCEPT !.remaining = Callbacks],
                           new_state.is_sleeping)
       IN IF Notifies(FALSE, new_state, state)
          THEN /\ state' = new_state
               /\ rounds' = [rounds EXCEPT !["poll"] = round]
               /\ Hear(NoListenerRound, round)
          ELSE UNCHANGED <<state, rounds, heard>>
    /\ evaluated_at' = now
    /\ UNCHANGED <<now, queue_vars, sink_vars, sleep_settings, manual_override,
                   last_broadcast, sent, response, evaluations, gap_vars, accepted, retries,
                   failures, called_at, delivered>>

\* SleepController.set_manual_override, up to the first suspension inside a
\* callback; the controller's lock is held while its _broadcast is under way
RoundOverride(value) ==
    /\ ~rounds["override"].pending
    /\ manual_override' = value
    /\ LET new_state == EvaluateState(sleep_settings, value, now)
           round == Invoke([NoListenerRound EXCEPT !.remaining = Callbacks],
                           new_state.is_sleeping)
       IN /\ state' = new_state
          /\ rounds' = [rounds EXCEPT !["override"] = round]
          /\ Hear(NoListenerRound, round)
    /\ evaluated_at' = now
    /\ UNCHANGED <<now, queue_vars, sink_vars, sleep_settings, last_broadcast,
                   sent, response, evaluations, gap_vars, accepted, retries, failures,
                   called_at, delivered>>

\* _broadcast, lines 106-110: the callback l of caller c's round returns or
\* raises; when nothing of the round is running the loop goes on to the
\* callbacks still to call, or ends
RoundAdvance(c, l) ==
    /\ rounds[c].pending
    /\ l \in rounds[c].running
    /\ LET done == [rounds[c] EXCEPT !.running = rounds[c].running \ {l}]
           round == IF done.running # {} THEN done
                    ELSE IF done.remaining # <<>> THEN Invoke(done, done.flag)
                    ELSE NoListenerRound
       IN /\ rounds' = [rounds EXCEPT ![c] = round]
          /\ IF round.pending THEN Hear(done, round) ELSE UNCHANGED heard
    /\ UNCHANGED <<now, queue_vars, sink_vars, sleep_settings, state,
                   manual_override, last_broadcast, sent, response, evaluations, gap_vars,
                   hist_vars>>

RoundNext ==
    \/ SleepTick
    \/ RoundPoll
    \/ \E value \in Overrides : RoundOverride(value)
    \/ \E c \in Callers, l \in Listeners : RoundAdvance(c, l)

RoundSpec == RoundInit /\ [][RoundNext]_vars

\* ------------------------------------------------------------ configuration
\* run_service from the configuration file on: load_config, then the
\* components built from it and the queue started. A time string is its
\* fields between colons, each a number or not.
HoursPerDay == Day \div MinutesPerHour

Number(v) == [num |-> TRUE, val |-> v]
NotANumber == [num |-> FALSE, val |-> 0]

Loaded(v) == [ok |-> TRUE, value |-> v]
LoadFailed == [ok |-> FALSE, value |-> 0]

\* config._parse_time: `hour, minute = value.split(":")` and
\* `time(int(hour), int(minute))`, each of which raises ValueError
ParseTime(fields) ==
    IF Len(fields) # 2
    THEN LoadFailed
    ELSE IF ~fields[1].num \/ ~fields[2].num
    THEN LoadFailed
    ELSE IF \/ fields[1].val \notin 0..(HoursPerDay - 1)
            \/ fields[2].val \notin 0..(MinutesPerHour - 1)
    THEN LoadFailed
    ELSE Loaded(fields[1].val * MinutesPerHour + fields[2].val)

\* AppConfig.from_dict, lines 89-97: QueueSettings(**raw["queue"]) takes the
\* three numbers as they are; the sleep times go through _parse_time
FromDict(raw) ==
    LET start == ParseTime(raw.sleep.start)
        end == ParseTime(raw.sleep.end)
    IN IF ~start.ok \/ ~end.ok
       THEN LoadFailed
       ELSE Loaded([queue |-> QueueSettings(raw.queue.default_delay_seconds,
                                           raw.queue.minimum_gap_seconds,
                                           raw.queue.maximum_delay_seconds),
                    sleep |-> [enabled |-> raw.sleep.enabled,
                               start |-> start.value, end |-> end.value]])

\* the `queue` section of the files explored: valid, inverted and negative
\* durations
RawQueueChoices ==
    [default_delay_seconds : {-1, 0, 2},
     minimum_gap_seconds : {-1, 1},
     maximum_delay_seconds : {-1, 1}]

\* the time strings explored: "01:00", "00:01", an hour and a minute out of
\* range, a negative hour, "ab:00", "01" and "01:00:00"
RawTimeChoices ==
    {<<Number(1), Number(0)>>, <<Number(0), Number(1)>>,
     <<Number(HoursPerDay), Number(0)>>, <<Number(0), Number(MinutesPerHour)>>,
     <<Number(-1), Number(0)>>, <<NotANumber, Number(0)>>,
     <<Number(1)>>, <<Number(1), Number(0), Number(0)>>}

RawConfigChoices ==
    [queue : RawQueueChoices,
     sleep : [enabled : {TRUE}, start : RawTimeChoices, end : RawTimeChoices]]

\* before run_service is entered: the file is there, nothing is built
ConfigInit ==
    /\ now = 0
    /\ config \in [raw : RawConfigChoices, status : {"unread"}]
    /\ settings = QueueSettings(0, 0, 0)
    /\ queue = {}
    /\ queue_event = FALSE
    /\ counter = 0
    /\ next_available_time = 0
    /\ worker_task = 0
    /\ closed = FALSE
    /\ lock = 0
    /\ pc = [w \in Workers |-> "none"]
    /\ wait_until = [w \in Workers |-> 0]
    /\ scheduled = [w \in Workers |-> NoEntry]
    /\ sleep_settings = SleepDisabled
    /\ state = InitialSleepState(sleep_settings, 0)
    /\ manual_override = None
    /\ last_broadcast = NoBroadcast
    /\ rounds = [c \in Callers |-> NoRound]
    /\ sent = NoPayload
    /\ response = NoPayload
    /\ heard = [l \in Listeners |-> NotHeard]
    /\ evaluations = {}
    /\ NoDonationQueue
    /\ sleeping = FALSE
    /\ saved = {}
    /\ shown = {}
    /\ motor_cmds = {}
    /\ motor_errors = {}
    /\ accepted = [d \in Donations |-> NotAccepted]
    /\ retries = [d \in Donations |-> <<>>]
    /\ failures = [d \in Donations |-> 0]
    /\ called_at = [w \in Workers |-> 0]
    /\ evaluated_at = -1
    /\ delivered = <<>>

\* run_service, lines 38-55: load_config raises and nothing is built, or the
\* components are built from the loaded values, the queue is started and
\* sleep_callback is called with the controller's initial state
RunService ==
    /\ config.status = "unread"
    /\ LET loaded == FromDict(config.raw)
       IN IF ~loaded.ok
          THEN /\ config' = [config EXCEPT !.status = "failed"]
               /\ UNCHANGED <<settings, sleep_settings, state, sleeping,
                              worker_task, pc>>
          ELSE /\ config' = [config EXCEPT !.status = "loaded"]
               /\ settings' = loaded.value.queue
               /\ sleep_settings' = loaded.value.sleep
               /\ state' = InitialSleepState(loaded.value.sleep, now)
               /\ sleeping' = state'.is_sleeping
               /\ worker_task' = 1
               /\ pc' = [pc EXCEPT ![1] = "created"]
    /\ UNCHANGED <<now, queue, queue_event, counter, next_available_time, closed,
                   lock, wait_until, scheduled, saved, shown, motor_cmds,
                   motor_errors, manual_override, last_broadcast, delivery_vars,
                   hist_vars>>

\* the service's components act once run_service has built them
ConfigTick == config.status = "loaded" /\ Tick
ConfigEnqueue(d) == config.status = "loaded" /\ Enqueue(d)
ConfigWorkerBegin(w) == config.status = "loaded" /\ WorkerBegin(w)
ConfigWorkerResume(w) == config.status = "loaded" /\ WorkerResume(w)
ConfigProcessorReturns(w) == config.status = "loaded" /\ ProcessorReturns(w)

ConfigNext ==
    \/ RunService
    \/ ConfigTick
    \/ \E d \in Donations : ConfigEnqueue(d)
    \/ \E w \in Workers : ConfigWorkerBegin(w)
    \/ \E w \in Workers : ConfigWorkerResume(w)
    \/ \E w \in Workers : ConfigProcessorReturns(w)

ConfigSpec == ConfigInit /\ [][ConfigNext]_vars

\* ------------------------------------------------- cat_feeder.DonationQueue
\* put: the delay of the new item, computed from the last display
PutDelay(gap, last, t) ==
    IF last # NoTime THEN Max(0, gap - (t - last)) ELSE 0

\* put: the deque after the oldest item was dropped from a full deque
DropOldest(q, limit) == IF Len(q) >= limit THEN Tail(q) ELSE q

\* get, after the pop: the end of the call, which records the display time
GetReturns ==
    /\ last_display_time' = now
    /\ returned' = Append(returned, now)
    /\ getter' = Idle

GapInit ==
    /\ now = 0
    /\ config = NoConfig
    /\ settings = ServiceQueueSettings
    /\ queue = {}
    /\ queue_event = FALSE
    /\ counter = 0
    /\ next_available_time = 0
    /\ worker_task = 0
    /\ closed = FALSE
    /\ lock = 0
    /\ pc = [w \in Workers |-> "none"]
    /\ wait_until = [w \in Workers |-> 0]
    /\ scheduled = [w \in Workers |-> NoEntry]
    /\ sleep_settings = SleepDisabled
    /\ state = InitialSleepState(sleep_settings, now)
    /\ manual_override = None
    /\ last_broadcast = NoBroadcast
    /\ rounds = [c \in Callers |-> NoRound]
    /\ sent = NoPayload
    /\ response = NoPayload
    /\ heard = [l \in Listeners |-> NotHeard]
    /\ evaluations = {}
    /\ min_gap \in MinGapChoices
    /\ max_items \in MaxItemsChoices
    /\ donation_queue = <<>>
    /\ last_display_time = NoTime
    /\ queue_closed = FALSE
    /\ getter = Idle
    /\ put_count = 0
    /\ returned = <<>>
    /\ sleeping = FALSE
    /\ saved = {}
    /\ shown = {}
    /\ motor_cmds = {}
    /\ motor_errors = {}
    /\ accepted = [d \in Donations |-> NotAccepted]
    /\ retries = [d \in Donations |-> <<>>]
    /\ failures = [d \in Donations |-> 0]
    /\ called_at = [w \in Workers |-> 0]
    /\ evaluated_at = -1
    /\ delivered = <<>>

\* time passes, at least until a sleeping get can return
GapTick ==
    /\ now < MaxTime \/ (getter.pc = "sleep" /\ getter.wake_at > now)
    /\ now' = now + 1
    /\ UNCHANGED <<queue_vars, sink_vars, sleep_vars, hist_vars>>

\* DonationQueue.put; after close it raises CancelledError and changes nothing
Put ==
    /\ put_count < MaxPuts
    /\ ~queue_closed
    /\ donation_queue' =
           Append(DropOldest(donation_queue, max_items),
                  [donation |-> put_count + 1,
                   delay_seconds |-> PutDelay(min_gap, last_display_time, now)])
    /\ put_count' = put_count + 1
    /\ UNCHANGED <<now, queue_vars, sink_vars, sleep_settings, state,
                   manual_override, last_broadcast, rounds, sent, response, heard,
                   evaluations, min_gap, max_items, last_display_time,
                   queue_closed, getter, returned, hist_vars>>

\* get, from the pop on: `if item.delay_seconds: await asyncio.sleep(...)`,
\* then the display time is recorded and the item returned
Popped ==
    /\ donation_queue' = Tail(donation_queue)
    /\ IF Head(donation_queue).delay_seconds # 0
       THEN /\ getter' = [pc |-> "sleep",
                          delay_seconds |-> Head(donation_queue).delay_seconds,
                          wake_at |-> now + Head(donation_queue).delay_seconds]
            /\ UNCHANGED <<last_display_time, returned>>
       ELSE GetReturns

\* DonationQueue.get is called: with an empty deque it waits on _not_empty
\* (after close it raises CancelledError and changes nothing)
Get ==
    /\ getter.pc = "idle"
    /\ IF donation_queue = <<>>
       THEN /\ ~queue_closed
            /\ getter' = [Idle EXCEPT !.pc = "wait"]
            /\ UNCHANGED <<donation_queue, last_display_time, returned>>
       ELSE Popped
    /\ UNCHANGED <<now, queue_vars, sink_vars, sleep_settings, state,
                   manual_override, last_broadcast, rounds, sent, response, heard,
                   evaluations, min_gap, max_items, queue_closed, put_count,
                   hist_vars>>

\* get: the waiter notified by put or by close re-tests the deque
GetNotified ==
    /\ getter.pc = "wait"
    /\ donation_queue # <<>> \/ queue_closed
    /\ IF donation_queue = <<>>
       THEN /\ getter' = Idle
            /\ UNCHANGED <<donation_queue, last_display_time, returned>>
       ELSE Popped
    /\ UNCHANGED <<now, queue_vars, sink_vars, sleep_settings, state,
                   manual_override, last_broadcast, rounds, sent, response, heard,
                   evaluations, min_gap, max_items, queue_closed, put_count,
                   hist_vars>>

\* get: asyncio.sleep(item.delay_seconds) is over
GetWakes ==
    /\ getter.pc = "sleep"
    /\ now >= getter.wake_at
    /\ GetReturns
    /\ UNCHANGED <<now, queue_vars, sink_vars, sleep_settings, state,
                   manual_override, last_broadcast, rounds, sent, response, heard,
                   evaluations, min_gap, max_items, donation_queue, queue_closed,
                   put_count, hist_vars>>

\* DonationQueue.close
CloseQueue ==
    /\ ~queue_closed
    /\ queue_closed' = TRUE
    /\ UNCHANGED <<now, queue_vars, sink_vars, sleep_settings, state,
                   manual_override, last_broadcast, rounds, sent, response, heard,
                   evaluations, min_gap, max_items, donation_queue,
                   last_display_time, getter, put_count, returned, hist_vars>>

GapNext ==
    \/ GapTick
    \/ Put
    \/ Get
    \/ GetNotified
    \/ GetWakes
    \/ CloseQueue

GapSpec == GapInit /\ [][GapNext]_vars

\* ---------------------------------------------------------------- claims
DeliveriesOf(d) == {i \in 1..Len(delivered) : delivered[i].donation = d}
EntriesOf(d) == {e \in queue : e.donation = d}
FlightsOf(d) == {w \in Workers : InFlight(w) /\ scheduled[w].donation = d}

\* C1: any two consecutive successful dispatches are at least
\* minimum_gap_seconds apart, unless the later entry's execute_at was capped
\* by its own enqueue time + maximum_delay_seconds.
C1_MinimumGapBetweenDispatches ==
    \A i \in 1..(Len(delivered) - 1) :
        ~accepted[delivered[i + 1].donation].capped
            => delivered[i + 1].at - delivered[i].at >= settings.minimum_gap_seconds

\* C2: every entry inserted by enqueue at time t has
\* execute_at <= t + maximum_delay_seconds, however far ahead
\* next_available_time lies.
C2_ExecuteAtWithinMaximumDelay ==
    \A e \in queue :
        e.attempt = 0
            => e.execute_at <= accepted[e.donation].at + settings.maximum_delay_seconds

\* C2 witness: an entry whose execute_at was capped at its deadline while
\* next_available_time lies beyond it.
C2_Witness ==
    \E e \in queue :
        /\ e.attempt = 0
        /\ accepted[e.donation].capped
        /\ e.execute_at = accepted[e.donation].at + settings.maximum_delay_seconds
        /\ next_available_time > e.execute_at

\* C3: once close() has been called, the worker starts no new dispatch: no
\* worker goes from inspecting the heap to calling the processor.
C3_NoDispatchAfterClose ==
    [][closed => \A w \in Workers : scheduled'[w] \in {scheduled[w], NoEntry}]_vars

\* C4: an event whose processor call failed k times is re-inserted exactly k
\* times, with attempt 1, 2, ..., k in that order, and is delivered at most
\* once; its one successful call is the one after the k-th failure, and
\* after it the event is neither in the heap nor in flight.
C4_RetryConvergence ==
    \A d \in Donations :
        /\ Len(retries[d]) = failures[d]
        /\ \A i \in 1..Len(retries[d]) : retries[d][i] = i
        /\ Cardinality(DeliveriesOf(d)) <= 1
        /\ \A i \in DeliveriesOf(d) :
              /\ delivered[i].attempt = failures[d]
              /\ EntriesOf(d) = {}
              /\ FlightsOf(d) = {}

\* C4 witness: an event delivered after two failures.
C4_Witness ==
    \E d \in Donations :
        /\ failures[d] = 2
        /\ retries[d] = <<1, 2>>
        /\ DeliveriesOf(d) # {}

\* C5: every event accepted by enqueue is in exactly one place: once in the
\* heap, in flight in the worker, or delivered once; so a processor failure
\* always puts the entry back into the heap.
C5_NoAcceptedEventLost ==
    \A d \in Donations :
        IF accepted[d] = NotAccepted
        THEN EntriesOf(d) = {} /\ FlightsOf(d) = {} /\ DeliveriesOf(d) = {}
        ELSE Cardinality(EntriesOf(d)) + Cardinality(FlightsOf(d))
                 + Cardinality(DeliveriesOf(d)) = 1

\* C5 witness: an event back in the heap after its processor call failed,
\* on a queue that is not closed.
C5_Witness ==
    /\ ~closed
    /\ \E e \in queue : e.attempt >= 1 /\ failures[e.donation] = e.attempt

\* C6: at most one processor call is in flight, and start() has created at
\* most one worker.
C6_OneDispatchInFlight ==
    /\ Cardinality({w \in Workers : InFlight(w)}) <= 1
    /\ Cardinality({w \in Workers : pc[w] # "none"}) <= 1

\* C6 witness: a call in flight while an entry re-inserted after a failure
\* waits in the heap.
C6_Witness ==
    /\ \E w \in Workers : InFlight(w)
    /\ \E e \in queue : e.attempt >= 1

\* worker w's processor call returns in this step: process has run to its end
Completes(w) == InFlight(w) /\ Len(delivered') > Len(delivered)

WindowAtEnqueue(d) == IsSleepPeriod(sleep_settings, accepted[d].at)

\* C8 as stated: the motor decision follows the sleep window at the moment of
\* dispatch: enqueued awake and dispatched inside the window, no motor
\* command; enqueued asleep and dispatched outside the window, a motor command
\* (written, or at least attempted when the serial device fails).
C8_MotorFollowsWindowAtDispatch ==
    [][\A w \in Workers :
          Completes(w) =>
              LET d == scheduled[w].donation
                  at_dispatch == IsSleepPeriod(sleep_settings, now)
              IN /\ (~WindowAtEnqueue(d) /\ at_dispatch) => d \notin motor_cmds'
                 /\ (WindowAtEnqueue(d) /\ ~at_dispatch)
                       => d \in motor_cmds' \/ d \in motor_errors']_vars

\* C8 amended: the motor decision follows the sleep state the controller has
\* last published (by a poll or an override call) at the moment of dispatch,
\* whatever the state was at enqueue: published sleeping, no motor command is
\* written nor attempted; published awake, the write is attempted.
C8_MotorFollowsPublishedStateAtDispatch ==
    [][\A w \in Workers :
          Completes(w) =>
              LET d == scheduled[w].donation
              IN /\ state.is_sleeping
                       => d \notin motor_cmds' /\ d \notin motor_errors'
                 /\ ~state.is_sleeping
                       => d \in motor_cmds' \/ d \in motor_errors']_vars

\* C8 witness: one donation enqueued while the window was awake and
\* dispatched without a motor command, another enqueued inside the window
\* and dispatched with one.
C8_Witness ==
    \E i, j \in 1..Len(delivered) :
        /\ ~WindowAtEnqueue(delivered[i].donation)
        /\ delivered[i].donation \in shown \ (motor_cmds \cup motor_errors)
        /\ WindowAtEnqueue(delivered[j].donation)
        /\ delivered[j].donation \in motor_cmds

\* the state was evaluated at this instant for a window that crosses
\* midnight, with no override
CrossingEvaluated ==
    /\ evaluated_at = now
    /\ sleep_settings.enabled
    /\ sleep_settings.start > sleep_settings.end
    /\ manual_override = None

\* C9: for an enabled window that crosses midnight and no override,
\* evaluating at a time of day t with end <= t < start yields sleeping = false
\* with next_transition equal to start on the same calendar day as t.
C9_AwakeUntilStartSameDay ==
    (/\ CrossingEvaluated
     /\ sleep_settings.end <= now % Day
     /\ now % Day < sleep_settings.start)
        => state = [is_sleeping |-> FALSE,
                    next_transition |-> Combine(now, sleep_settings.start)]

\* C10: for an enabled window that crosses midnight and no override,
\* evaluating at a time of day t >= start yields sleeping = true with
\* next_transition equal to end on the following calendar day, and evaluating
\* at t < end yields sleeping = true with next_transition equal to end on the
\* same day.
C10_SleepingUntilEnd ==
    CrossingEvaluated =>
        /\ now % Day >= sleep_settings.start
              => state = [is_sleeping |-> TRUE,
                          next_transition |-> Combine(now, sleep_settings.end) + Day]
        /\ now % Day < sleep_settings.end
              => state = [is_sleeping |-> TRUE,
                          next_transition |-> Combine(now, sleep_settings.end)]

\* C10 witness: an evaluation late in the evening of day 1, after start, whose
\* next transition is the end of the window on day 2.
C10_Witness ==
    /\ CrossingEvaluated
    /\ now \div Day = 1
    /\ now % Day >= sleep_settings.start
    /\ sleep_settings.end > 0
    /\ state.is_sleeping
    /\ state.next_transition = 2 * Day + sleep_settings.end

\* the state was evaluated at this instant for an enabled window, with no
\* override
WindowEvaluated ==
    /\ evaluated_at = now
    /\ sleep_settings.enabled
    /\ manual_override = None

\* C11: for an enabled same-day window (start < end) and no override, the
\* evaluation at time of day t is sleeping iff start <= t < end, and
\* next_transition is end of the same day when sleeping and start of the same
\* day when awake.
C11_SameDayWindow ==
    (WindowEvaluated /\ sleep_settings.start < sleep_settings.end) =>
        LET t == now % Day
            inside == sleep_settings.start <= t /\ t < sleep_settings.end
        IN state = [is_sleeping |-> inside,
                    next_transition |->
                        IF inside THEN Combine(now, sleep_settings.end)
                        ELSE Combine(now, sleep_settings.start)]

\* C11 witness: an evaluation exactly at start, sleeping until end of the
\* same day.
C11_Witness ==
    /\ WindowEvaluated
    /\ sleep_settings.start < sleep_settings.end
    /\ now % Day = sleep_settings.start
    /\ state = [is_sleeping |-> TRUE,
                next_transition |-> Combine(now, sleep_settings.end)]

\* C12: for every enabled window, every evaluation instant and every
\* override value, the next_transition of the evaluated state is strictly
\* later than the instant of the evaluation.
C12_NextTransitionStrictlyFuture ==
    (evaluated_at = now /\ sleep_settings.enabled) => state.next_transition > now

\* C13 as stated: for every enabled window, start = end included, and no
\* override, the window computed at next_transition is the opposite of the
\* evaluated state.
C13_ParityFlipsForEveryWindow ==
    WindowEvaluated =>
        IsSleepPeriod(sleep_settings, state.next_transition) # state.is_sleeping

\* C13 amended: for every enabled window with start # end and no override,
\* the window computed at next_transition is the opposite of the evaluated
\* state.
C13_ParityFlips ==
    (WindowEvaluated /\ sleep_settings.start # sleep_settings.end) =>
        IsSleepPeriod(sleep_settings, state.next_transition) # state.is_sleeping

\* C13 witness: a sleeping evaluation inside a window that crosses midnight
\* whose next_transition, on the following day, is an awake instant.
C13_Witness ==
    /\ WindowEvaluated
    /\ sleep_settings.start > sleep_settings.end
    /\ state.is_sleeping
    /\ state.next_transition \div Day = now \div Day + 1
    /\ ~IsSleepPeriod(sleep_settings, state.next_transition)

\* C17: with enabled = true and start = end, the evaluation with no override
\* is awake at every time of day.
C17_ZeroLengthWindowAlwaysAwake ==
    (WindowEvaluated /\ sleep_settings.start = sleep_settings.end)
        => ~state.is_sleeping

\* every listener was called exactly once, with the flag of the published
\* state, in the round recorded by b
NotifiedOnce(b) ==
    /\ b.at = now
    /\ b.flag = state'.is_sleeping
    /\ \A l \in Listeners : b.calls[l] = 1

\* this step is a poll of run() that notified the listeners
PollNotifies ==
    last_broadcast' # last_broadcast /\ last_broadcast'.by = "poll"

C16_OverrideStaysInForce ==
    /\ manual_override # None
          => /\ state.is_sleeping = (manual_override = "True")
             /\ sleeping = state.is_sleeping
    /\ (manual_override = None /\ evaluated_at = now)
          => state.is_sleeping = IsSleepPeriod(sleep_settings, now)

\* C16 witness: ForceSleep is in force and a poll made after it was set, at
\* an instant outside the window, has published sleeping again.
C16_Witness ==
    /\ manual_override = "True"
    /\ evaluated_at = now
    /\ ~IsSleepPeriod(sleep_settings, now)
    /\ last_broadcast.by = "poll"
    /\ last_broadcast.flag
    /\ state.is_sleeping

\* C19: when a listener raises during a notification, every listener is
\* still called once in that round, listeners registered after it included,
\* and the exception does not reach the caller, so run() goes on to its next
\* evaluation.
C19_ListenerFailureIsolated ==
    last_broadcast.raised # {}
        => /\ \A l \in Listeners : last_broadcast.calls[l] = 1
           /\ ~last_broadcast.propagated

\* C19 witness: the first listener raised in a round of the poll loop, the
\* listener after it was called, and a later iteration of run() has
\* evaluated the state.
C19_Witness ==
    /\ last_broadcast.by = "poll"
    /\ 1 \in last_broadcast.raised
    /\ \A l \in Listeners : last_broadcast.calls[l] = 1
    /\ last_broadcast.at < evaluated_at
    /\ evaluated_at = now

\* C15: the next_transition published while an override is set equals the
\* next_transition that the evaluation at the same instant produces with no
\* override, for every window, time and override value.
C15_OverrideLeavesNextTransition ==
    (evaluated_at = now /\ manual_override # None)
        => state.next_transition
               = EvaluateState(sleep_settings, None, now).next_transition

\* C18: with enabled = false every published state is awake, after any
\* sequence of polls and set_manual_override calls.
C18_DisabledIsAlwaysAwake ==
    ~sleep_settings.enabled => ~state.is_sleeping /\ ~sleeping

\* every donation was enqueued at the same instant, none of its calls has
\* failed, and the settings leave room to space them all by the gap
Burst ==
    /\ settings.default_delay_seconds = 0
    /\ MaxDonations * settings.minimum_gap_seconds <= settings.maximum_delay_seconds
    /\ \A d \in Donations :
          /\ accepted[d] # NotAccepted
          /\ accepted[d].at = accepted[1].at
          /\ ~accepted[d].capped
          /\ failures[d] = 0

\* C20: the events of a burst enqueued into an idle queue, with no default
\* delay and room for the gap before every deadline, are dispatched in
\* enqueue order, each at least minimum_gap_seconds after the previous one.
C20_BurstDispatchedGapApart ==
    Burst =>
        \A i \in 1..(Len(delivered) - 1) :
            /\ accepted[delivered[i].donation].seq
                   < accepted[delivered[i + 1].donation].seq
            /\ delivered[i + 1].at - delivered[i].at >= settings.minimum_gap_seconds

\* C21: on each processor failure the attempt is incremented first and the
\* entry is re-inserted with
\* execute_at = now + min(minimum_gap_seconds * (attempt + 1), maximum_delay_seconds)
\* for the incremented attempt; so the delay before a retry never exceeds
\* maximum_delay_seconds and is not smaller than the delay of the failure
\* before.
C21_RetryBackoff ==
    [][\A w \in Workers :
          (InFlight(w) /\ failures'[scheduled[w].donation]
                              = failures[scheduled[w].donation] + 1) =>
              \E e \in queue' \cup {scheduled'[w]} :
                  LET delay == e.execute_at - now
                  IN /\ e.donation = scheduled[w].donation
                     /\ e.attempt = scheduled[w].attempt + 1
                     /\ delay = Min(settings.minimum_gap_seconds * (e.attempt + 1),
                                    settings.maximum_delay_seconds)
                     /\ delay <= settings.maximum_delay_seconds
                     /\ delay >= Min(settings.minimum_gap_seconds * e.attempt,
                                     settings.maximum_delay_seconds)]_vars

\* C21 witness: an entry just re-inserted after its second failure, whose
\* delay is capped at maximum_delay_seconds.
C21_Witness ==
    \E e \in queue :
        /\ e.attempt = 2
        /\ settings.minimum_gap_seconds * 3 > settings.maximum_delay_seconds
        /\ e.execute_at = now + settings.maximum_delay_seconds

\* worker w takes a step of its own
WorkerMoves(w) ==
    \/ pc'[w] # pc[w]
    \/ scheduled'[w] # scheduled[w]
    \/ wait_until'[w] # wait_until[w]

\* C22: after close() a worker that is waiting for the head entry's
\* execute_at terminates at its next step, whatever is pending: entries due in
\* the future and entries whose processor call fails included.
C22_WorkerStopsAfterClose ==
    [][\A w \in Workers :
          (closed /\ pc[w] = "waitfor" /\ WorkerMoves(w)) => pc'[w] = "done"]_vars

\* close() has been called and has returned: no worker task is left running
CloseReturned ==
    closed /\ \A w \in Workers : pc[w] \in {"none", "created", "done"}

\* C23: once close() has returned, nothing, a second close() and a start()
\* included, reopens the queue, removes an entry, puts a worker back into the
\* dispatch cycle or delivers anything.
C23_CloseIsIdempotent ==
    [][CloseReturned =>
          /\ closed'
          /\ queue \subseteq queue'
          /\ delivered' = delivered
          /\ next_available_time' = next_available_time
          /\ \A w \in Workers : pc'[w] \in {"none", "created", "done"}]_vars

\* C23 witness: the worker delivered, drained the heap and ended after
\* close(), which cleared the event; the event is set again with the heap
\* still empty, which only a second close() does.
C23_Witness ==
    /\ closed
    /\ \E w \in Workers : pc[w] = "done"
    /\ delivered # <<>>
    /\ queue = {}
    /\ queue_event

\* C24: every enqueue call inserts exactly one new entry with attempt = 0,
\* removes no entry, and sets the worker's event, in every queue state.
C24_EnqueueNeverRejects ==
    [][\A d \in Donations :
          (accepted[d] = NotAccepted /\ accepted'[d] # NotAccepted) =>
              /\ \E e \in queue' :
                     /\ e \notin queue
                     /\ queue' = queue \cup {e}
                     /\ e.donation = d
                     /\ e.attempt = 0
              /\ queue_event'
              /\ UNCHANGED <<pc, scheduled, closed>>]_vars

\* C24 witness: an entry inserted after close() had returned: the worker
\* delivered and ended on an empty heap, and the heap holds a fresh entry.
C24_Witness ==
    /\ closed
    /\ \E w \in Workers : pc[w] = "done"
    /\ delivered # <<>>
    /\ \E e \in queue : e.attempt = 0 /\ accepted[e.donation].at >= delivered[1].at

\* C25: the worker never holds the queue's lock while a processor call is in
\* flight, so an enqueue issued during the call takes the lock and completes.
C25_LockFreeDuringDispatch ==
    \A w \in Workers :
        InFlight(w) =>
            /\ lock = 0
            /\ \A d \in Donations : accepted[d] = NotAccepted => ENABLED Enqueue(d)

\* C25 witness: a processor call in flight, and an entry that enqueue inserted
\* after that call had begun.
C25_Witness ==
    \E w \in Workers :
        /\ InFlight(w)
        /\ \E e \in queue : e.attempt = 0 /\ accepted[e.donation].at > called_at[w]

\* C26: a worker waiting for the head entry's execute_at never sleeps past
\* an entry inserted meanwhile with an earlier execute_at: whenever the heap's
\* head is due before the time the worker waits for, the event is set and
\* the worker can resume at once, without waiting for the old head's time.
C26_WakesForEarlierEntry ==
    \A w \in Workers :
        (pc[w] = "waitfor" /\ queue # {}
            /\ QueueTop(queue).execute_at < wait_until[w])
                => queue_event /\ ENABLED WorkerResume(w)

\* C26 witness: the worker waits for a head entry and an entry due earlier has
\* been inserted.
C26_Witness ==
    \E w \in Workers :
        /\ pc[w] = "waitfor"
        /\ \E e \in queue : e.execute_at = wait_until[w]
        /\ QueueTop(queue).execute_at < wait_until[w]
        /\ now < wait_until[w]

\* C27: a worker that starts to wait for the head entry's execute_at is
\* suspended until that time or until an enqueue, a reschedule or close()
\* sets the event: the event it waits on is clear when the wait begins.
C27_SuspendedWhileHeadNotDue ==
    [][\A w \in Workers :
          (pc'[w] = "waitfor" /\ (pc[w] # "waitfor" \/ wait_until'[w] # wait_until[w]))
              => ~queue_event']_vars

\* the dispatch of donation d that ends in this step met a serial failure
SerialFailure(d) == d \in motor_errors' /\ d \notin motor_errors

ValidQueueDurations(q) ==
    /\ 0 <= q.default_delay_seconds
    /\ q.default_delay_seconds <= q.maximum_delay_seconds
    /\ q.minimum_gap_seconds >= 0

ValidTimeString(fields) ==
    /\ Len(fields) = 2
    /\ \A i \in 1..2 : fields[i].num
    /\ fields[1].val \in 0..(HoursPerDay - 1)
    /\ fields[2].val \in 0..(MinutesPerHour - 1)

ValidConfiguration(raw) ==
    /\ ValidQueueDurations(raw.queue)
    /\ ValidTimeString(raw.sleep.start)
    /\ ValidTimeString(raw.sleep.end)

\* C29: a configuration with invalid queue durations or an invalid sleep time
\* makes startup fail before anything is started: once run_service has read
\* such a file the load has failed, no worker exists and nothing was enqueued
\* or dispatched.
C29_InvalidConfigurationRejected ==
    (config.status \in {"loaded", "failed"} /\ ~ValidConfiguration(config.raw)) =>
        /\ config.status = "failed"
        /\ worker_task = 0
        /\ \A w \in Workers : pc[w] = "none"
        /\ queue = {} /\ delivered = <<>>

\* the SleepState a payload shows
Pair(p) == [is_sleeping |-> p.sleeping, next_transition |-> p.next_transition]

\* C30: every reader of the published SleepState sees a pair produced by one
\* single evaluation: the state get_state() returns, the payload sent to the
\* sleep clients and the response of the toggle request are each the result
\* of one _evaluate_state, under every interleaving of poll rounds, override
\* rounds and deliveries.
C30_ReadersSeeOneEvaluation ==
    /\ state \in evaluations
    /\ \A p \in {sent, response} : p # NoPayload => Pair(p) \in evaluations

\* C30 witness: a payload has been sent, and a round is in delivery whose
\* evaluation has meanwhile been replaced, in both fields, by a later one.
C30_Witness ==
    /\ sent # NoPayload
    /\ \E c \in Callers :
           /\ rounds[c].pending
           /\ rounds[c].flag # state.is_sleeping
           /\ rounds[c].read.next_transition # state.next_transition

\* worker w pops an entry in this step
Pops(w) == pc'[w] = "call" /\ scheduled'[w] # scheduled[w]

\* C31: the worker always removes the entry with the smallest
\* (execute_at, insertion counter) of the heap, so entries with equal
\* execute_at leave in the order of their insertion; every insertion, by
\* enqueue or by a retry, takes the current counter and increments it, so no
\* two entries carry the same counter.
C31_HeapOrderIsTotal ==
    [][/\ \A w \in Workers :
             Pops(w) =>
                 \A f \in queue' :
                     \/ scheduled'[w].execute_at < f.execute_at
                     \/ /\ scheduled'[w].execute_at = f.execute_at
                        /\ scheduled'[w].counter < f.counter
       /\ \A e \in (queue' \cup {scheduled'[w] : w \in Workers}) \ 
                    (queue \cup {scheduled[w] : w \in Workers}) :
             e.counter = counter /\ counter' = counter + 1
       /\ \A e, f \in queue' : e.counter = f.counter => e = f
       /\ \A e \in queue' : e.counter < counter']_vars

\* C31 witness: the entry in flight was popped ahead of an entry with the
\* same execute_at that was inserted after it.
C31_Witness ==
    \E w \in Workers :
        /\ pc[w] = "call"
        /\ \E f \in queue :
               /\ f.execute_at = scheduled[w].execute_at
               /\ f.counter > scheduled[w].counter

\* C32: no entry is handed to the processor before its execute_at: at every
\* pop the removed entry satisfies execute_at <= now.
C32_PoppedEntryIsDue ==
    [][\A w \in Workers : Pops(w) => scheduled'[w].execute_at <= now]_vars

\* C32 witness: the entry in flight was popped at its execute_at, after a
\* wait, ahead of an entry inserted before it: the head changed while the
\* worker was waiting.
C32_Witness ==
    \E w \in Workers :
        /\ pc[w] = "call"
        /\ scheduled[w].execute_at = called_at[w]
        /\ accepted[scheduled[w].donation].at < called_at[w]
        /\ \E f \in queue : f.counter < scheduled[w].counter

\* C33: without manual override calls the poll loop notifies only when the
\* sleep/awake flag changes: a notification of run() that follows another
\* notification of run() carries the other isSleeping value.
C33_PollNotifiesOnFlagChangeOnly ==
    [][(/\ manual_override = None
        /\ last_broadcast.by = "poll"
        /\ last_broadcast'.by = "poll"
        /\ last_broadcast' # last_broadcast)
            => last_broadcast'.flag # last_broadcast.flag]_vars

\* C34: in every notification round the listeners are invoked one at a
\* time in the order of their registration, each completing, or failing,
\* before the next is invoked.
C34_ListenersInRegistrationOrder ==
    \A c \in Callers :
        rounds[c].pending =>
            /\ \A i \in 1..Len(rounds[c].invoked) : rounds[c].invoked[i] = Callbacks[i]
            /\ rounds[c].invoked # <<>>
            /\ rounds[c].running \subseteq {rounds[c].invoked[Len(rounds[c].invoked)]}

\* C34 witness: a round has reached its last listener, the earlier ones
\* having completed, while a round of the other caller is under way.
C34_Witness ==
    \E c, b \in Callers :
        /\ c # b
        /\ rounds[b].pending
        /\ rounds[c].pending
        /\ Len(rounds[c].invoked) = MaxListeners
        /\ rounds[c].running = {MaxListeners}

\* C35: under every interleaving of run() with set_manual_override calls,
\* once no notification round is under way the flag last delivered to each
\* listener equals get_state().is_sleeping.
C35_ListenersAgreeWithState ==
    (\A c \in Callers : ~rounds[c].pending) =>
        \A l \in Listeners : heard[l].told => heard[l].flag = state.is_sleeping

\* C36: the state a SleepController publishes right after construction
\* reflects the configured window: built by run_service at a time inside an
\* enabled window (of non-zero length), get_state().is_sleeping is true and
\* the actuator flag initialised from it is set.
C36_ConstructedStateReflectsWindow ==
    [][(config.status = "unread" /\ config'.status = "loaded"
            /\ sleep_settings'.start # sleep_settings'.end
            /\ IsSleepPeriod(sleep_settings', now'))
          => state'.is_sleeping /\ sleeping']_vars

\* C37: under fair scheduling, for a started queue that is never closed and
\* a processor that eventually succeeds, every event accepted by enqueue is
\* eventually delivered.
C37_AcceptedIsEventuallyDelivered ==
    \A d \in Donations : (accepted[d] # NotAccepted) ~> (DeliveriesOf(d) # {})

\* C37 witness: a donation enqueued before the worker was started, whose
\* processor call raised MaxRetries times, has been delivered after waiting
\* for its last backoff.
C37_Witness ==
    \E d \in Donations :
        /\ failures[d] = MaxRetries
        /\ \E i \in DeliveriesOf(d) :
               /\ delivered[i].attempt = MaxRetries
               /\ delivered[i].at > MaxTime

\* C38: no wakeup is lost: whenever the heap is non-empty and no coroutine
\* holds the queue lock, the queue event is set, so no worker is parked on
\* the empty-queue wait with the event clear while an entry is pending; and
\* the event is cleared only in a step that leaves the heap empty.
C38_NoWakeupIsLost ==
    /\ []((queue # {} /\ lock = 0) => queue_event)
    /\ [][(queue_event /\ ~queue_event') => queue' = {}]_vars

\* C38 witness: a worker has popped the head and is in the processor call
\* while entries enqueued before the pop, never re-inserted, are still in the
\* heap, and the event is still set.
C38_Witness ==
    \E w \in Workers :
        /\ pc[w] = "call"
        /\ queue # {}
        /\ queue_event
        /\ \A e \in queue :
               /\ e.attempt = 0
               /\ accepted[e.donation].at < called_at[w]

\* C39: the instants at which two consecutive get() calls of the cat_feeder
\* DonationQueue return their items are at least min_gap apart.
C39_ConsecutiveGetsAreSpaced ==
    \A i \in 1..(Len(returned) - 1) : returned[i + 1] - returned[i] >= min_gap

====
